---- MODULE Spec2Model ----
(***************************************************************************)
(* A model of scripts/analyze.py: the overlap pipeline of skill-curator.   *)
(*                                                                         *)
(*   main            loads the corpus, calls compute_overlap and           *)
(*                   find_clusters, prints JSON or the narrative report    *)
(*   compute_overlap scores every pair of skills (Python floats) and       *)
(*                   keeps the pairs whose composite is > 0.15             *)
(*   find_clusters   union-find over the kept records                      *)
(*                                                                         *)
(* Python floats are IEEE-754 doubles.  They are modelled exactly: a       *)
(* double is a 53-bit mantissa (a natural number held in 13-bit limbs)     *)
(* and a binary exponent, and every operation rounds to nearest, ties to   *)
(* even, as the hardware does.                                             *)
(***************************************************************************)
EXTENDS Integers, Sequences, FiniteSets, TLC

(***************************************************************************)
(* Natural numbers of any size: sequences of limbs, least significant      *)
(* first, no leading zero limb; <<>> is 0.                                 *)
(***************************************************************************)
LimbBits == 13
Base == 2 ^ LimbBits

RECURSIVE BNorm(_)
BNorm(a) ==
    IF a = <<>> THEN <<>>
    ELSE IF a[Len(a)] = 0 THEN BNorm(SubSeq(a, 1, Len(a) - 1))
    ELSE a

BFromInt(n) ==
    BNorm(<< n % Base, (n \div Base) % Base, n \div (Base * Base) >>)

RECURSIVE BToInt(_)
BToInt(a) == IF a = <<>> THEN 0 ELSE a[1] + Base * BToInt(Tail(a))

Limb(a, i) == IF i <= Len(a) THEN a[i] ELSE 0

RECURSIVE BAddFrom(_, _, _, _)
BAddFrom(a, b, i, carry) ==
    IF i > Len(a) /\ i > Len(b)
    THEN IF carry = 0 THEN <<>> ELSE << carry >>
    ELSE LET s == Limb(a, i) + Limb(b, i) + carry
         IN  << s % Base >> \o BAddFrom(a, b, i + 1, s \div Base)

BAdd(a, b) == BNorm(BAddFrom(a, b, 1, 0))

\* a * k for a small natural k (k <= Base)
RECURSIVE BMulSmallFrom(_, _, _, _)
BMulSmallFrom(a, k, i, carry) ==
    IF i > Len(a)
    THEN IF carry = 0 THEN <<>> ELSE << carry % Base, carry \div Base >>
    ELSE LET s == a[i] * k + carry
         IN  << s % Base >> \o BMulSmallFrom(a, k, i + 1, s \div Base)

BMulSmall(a, k) == BNorm(BMulSmallFrom(a, k, 1, 0))

Zeros(n) == [i \in 1..n |-> 0]

\* a * Base^n
BShlLimbs(a, n) == IF a = <<>> THEN <<>> ELSE Zeros(n) \o a

RECURSIVE BMulFrom(_, _, _)
BMulFrom(a, b, j) ==
    IF j > Len(b) THEN <<>>
    ELSE BAdd(BShlLimbs(BMulSmall(a, b[j]), j - 1), BMulFrom(a, b, j + 1))

BMul(a, b) == BMulFrom(a, b, 1)

\* floor(a / k) and a mod k for a small k (0 < k <= Base): long division from
\* the most significant limb down
RECURSIVE BDivSmallFrom(_, _, _, _)
BDivSmallFrom(a, k, i, rem) ==
    IF i = 0 THEN [q |-> <<>>, r |-> rem]
    ELSE LET cur  == rem * Base + a[i]
             rest == BDivSmallFrom(a, k, i - 1, cur % k)
         IN  [q |-> rest.q \o << cur \div k >>, r |-> rest.r]

BDivSmall(a, k) ==
    LET d == BDivSmallFrom(a, k, Len(a), 0)
    IN  [q |-> BNorm(d.q), r |-> d.r]

\* a * 2^n
BShl(a, n) == BShlLimbs(BMulSmall(a, 2 ^ (n % LimbBits)), n \div LimbBits)

\* floor(a / 2^n), and whether a bit was lost
BShr(a, n) ==
    LET k    == n \div LimbBits
        low  == SubSeq(a, 1, IF k <= Len(a) THEN k ELSE Len(a))
        high == IF k >= Len(a) THEN <<>> ELSE SubSeq(a, k + 1, Len(a))
        d    == BDivSmall(high, 2 ^ (n % LimbBits))
    IN  [q |-> d.q, lost |-> d.r # 0 \/ BNorm(low) # <<>>]

RECURSIVE IntBits(_)
IntBits(n) == IF n = 0 THEN 0 ELSE 1 + IntBits(n \div 2)

BBitLen(a) ==
    IF a = <<>> THEN 0 ELSE (Len(a) - 1) * LimbBits + IntBits(a[Len(a)])

BIsOdd(a) == a # <<>> /\ a[1] % 2 = 1

\* -1, 0, 1 as a < b, a = b, a > b
RECURSIVE BCmpFrom(_, _, _)
BCmpFrom(a, b, i) ==
    IF i = 0 THEN 0
    ELSE IF a[i] < b[i] THEN -1
    ELSE IF a[i] > b[i] THEN 1
    ELSE BCmpFrom(a, b, i - 1)

BCmp(a, b) ==
    IF Len(a) < Len(b) THEN -1
    ELSE IF Len(a) > Len(b) THEN 1
    ELSE BCmpFrom(a, b, Len(a))

(***************************************************************************)
(* IEEE-754 doubles in the range the program uses (0 and normal numbers):  *)
(* [m, e] is m * 2^e with m = 0 or 2^52 <= m < 2^53.                       *)
(***************************************************************************)
MantBits == 53
FZero == [m |-> <<>>, e |-> 0]

\* The double nearest to (m + f) * 2^e, where 0 <= f < 1 and sticky says f > 0:
\* round to nearest, ties to even.  When bits are dropped, m has at least
\* two more bits than a mantissa, so sticky only breaks ties.
RoundToDouble(m, e, sticky) ==
    LET n == BBitLen(m)
    IN  IF m = <<>> THEN FZero
        ELSE IF n <= MantBits THEN [m |-> BShl(m, MantBits - n), e |-> e - (MantBits - n)]
        ELSE LET s     == n - MantBits
                 q     == BShr(m, s).q
                 half  == BShr(m, s - 1)
                 above == BIsOdd(half.q)
                 rest  == half.lost \/ sticky
                 up    == above /\ (rest \/ BIsOdd(q))
                 r     == IF up THEN BAdd(q, << 1 >>) ELSE q
             IN  IF BBitLen(r) > MantBits
                 THEN [m |-> BShr(r, 1).q, e |-> e + s + 1]
                 ELSE [m |-> r, e |-> e + s]

\* p / q for Python ints (true division is correctly rounded)
DivScale == 5 * LimbBits + 5
FDiv(p, q) ==
    IF p = 0 THEN FZero
    ELSE LET d == BDivSmall(BShl(BFromInt(p), DivScale), q)
         IN  RoundToDouble(d.q, 0 - DivScale, d.r # 0)

FMul(x, y) == RoundToDouble(BMul(x.m, y.m), x.e + y.e, FALSE)

FAdd(x, y) ==
    IF x.m = <<>> THEN y
    ELSE IF y.m = <<>> THEN x
    ELSE LET e == IF x.e < y.e THEN x.e ELSE y.e
         IN  RoundToDouble(BAdd(BShl(x.m, x.e - e), BShl(y.m, y.e - e)), e, FALSE)

\* -1, 0, 1 as x < y, x = y, x > y
FCmp(x, y) ==
    IF x.m = <<>> /\ y.m = <<>> THEN 0
    ELSE IF x.m = <<>> THEN -1
    ELSE IF y.m = <<>> THEN 1
    ELSE LET e == IF x.e < y.e THEN x.e ELSE y.e
         IN  BCmp(BShl(x.m, x.e - e), BShl(y.m, y.e - e))

\* round(x, 3) for 0 <= x <= 1, as the number of thousandths: Python rounds the
\* exact binary value, ties to even, and returns the double nearest to d/1000.
\* The doubles nearest to distinct thousandths are distinct and ordered as the
\* thousandths are, so d stands for that double.
Round3(x) ==
    IF x.m = <<>> THEN 0
    ELSE LET t     == BMulSmall(x.m, 1000)
             s     == 0 - x.e
             q     == BShr(t, s).q
             half  == BShr(t, s - 1)
             above == BIsOdd(half.q)
             up    == above /\ (half.lost \/ BIsOdd(q))
         IN  BToInt(q) + (IF up THEN 1 ELSE 0)


(***************************************************************************)
(* The corpus.  A skill name is a string, held as its sequence of          *)
(* characters (small integers standing for code points); a word or a       *)
(* phrase of a description is a TLA+ string.                               *)
(***************************************************************************)
MaxSkills == 4

NameOf(i) == IF i % 2 = 0 THEN << i \div 2 >> ELSE << (i + 1) \div 2, 1 >>
NamePool == { NameOf(i) : i \in 1..MaxSkills }

\* str.lower() on the vocabulary of the pool
Lower(s) ==
    CASE s = "Use" -> "use"
      [] s = "Deploy" -> "deploy"
      [] s = "App" -> "app"
      [] s = "Deploy App" -> "deploy app"
      [] OTHER -> s

\* The lower-case words and phrases of the pool in Python's string order
Vocabulary == << "app", "deploy", "deploy app", "rollback", "the", "use" >>

\* A description is the letter runs of its text and its quoted phrases, in
\* the order of the text.  A frontmatter may lack the tools and version keys.
NoDescription == [words |-> {}, quotes |-> <<>>]
SkillPool ==
    { [description |-> NoDescription, tools |-> << "Read", "Grep", "Bash" >>,
       version |-> "1.0", _body_lines |-> 12],
      [description |-> NoDescription, tools |-> << "Read", "Grep", "Bash", "", "Edit" >>,
       version |-> "1.1", _body_lines |-> 30],
      [description |-> [words |-> { "Use", "Deploy", "App" }, quotes |-> << "Deploy App" >>],
       tools |-> << "Read", "Grep", "Bash" >>, version |-> "2.0", _body_lines |-> 7],
      [description |-> [words |-> { "the", "deploy", "app", "rollback" },
                        quotes |-> << "deploy app" >>],
       _body_lines |-> 9] }

\* dict.get(key, default)
Get(d, key, default) == IF key \in DOMAIN d THEN d[key] ELSE default

Range(s) == { s[i] : i \in DOMAIN s }

Take(s, n) == SubSeq(s, 1, IF Len(s) < n THEN Len(s) ELSE n)

(***************************************************************************)
(* Feature extraction                                                      *)
(***************************************************************************)
ExtractTriggers(description) == description.quotes

Stopwords == { "the", "use", "skill", "tool", "user", "file", "asks" }

ExtractKeywords(description) ==
    { Lower(w) : w \in description.words } \ Stopwords

ExtractTools(fm) ==
    LET tools_str == Get(fm, "tools", <<>>)
    IN  IF tools_str = <<>> THEN {}
        ELSE { t \in Range(tools_str) : t # "" }

Jaccard(a, b) ==
    IF a = {} /\ b = {} THEN FZero
    ELSE FDiv(Cardinality(a \cap b), Cardinality(a \cup b))

(***************************************************************************)
(* compute_overlap                                                         *)
(***************************************************************************)
\* Python's str < str
RECURSIVE LexLess(_, _)
LexLess(a, b) ==
    IF b = <<>> THEN FALSE
    ELSE IF a = <<>> THEN TRUE
    ELSE IF a[1] # b[1] THEN a[1] < b[1]
    ELSE LexLess(Tail(a), Tail(b))

\* sorted() of a set of names
RECURSIVE SortedNames(_)
SortedNames(S) ==
    IF S = {} THEN <<>>
    ELSE LET m == CHOOSE a \in S : \A b \in S \ {a} : LexLess(a, b)
         IN  << m >> \o SortedNames(S \ {m})

\* sorted() of a set of words or phrases
SortedWords(S) == SelectSeq(Vocabulary, LAMBDA w : w \in S)

\* itertools.combinations(names, 2)
RECURSIVE CombinationsFrom(_, _, _)
CombinationsFrom(s, i, j) ==
    IF i >= Len(s) THEN <<>>
    ELSE IF j > Len(s) THEN CombinationsFrom(s, i + 1, i + 2)
    ELSE << << s[i], s[j] >> >> \o CombinationsFrom(s, i, j + 1)

Combinations(s) == CombinationsFrom(s, 1, 2)

\* The float literals of the weighted score
KwWeight == FDiv(1, 2)
ToolWeight == FDiv(1, 5)
TrigBonus == FDiv(3, 10)
ReportThreshold == FDiv(3, 20)

\* Composite with the keyword weight left out
CompositeUnweighted(kw_sim, tool_sim, trig_overlap) ==
    FAdd(FAdd(kw_sim, FMul(tool_sim, ToolWeight)),
         IF trig_overlap # {} THEN TrigBonus ELSE FZero)

Composite(kw_sim, tool_sim, trig_overlap) ==
    FAdd(FAdd(FMul(kw_sim, KwWeight), FMul(tool_sim, ToolWeight)),
         IF trig_overlap # {} THEN TrigBonus ELSE FZero)

Reported(composite) == FCmp(composite, ReportThreshold) = 1

KeywordPreview == 10

\* The loop body's locals for the pair (a, b)
Score(skills, a, b) ==
    LET desc_a  == Get(skills[a], "description", NoDescription)
        desc_b  == Get(skills[b], "description", NoDescription)
        kw_a    == ExtractKeywords(desc_a)
        kw_b    == ExtractKeywords(desc_b)
        kw_sim  == Jaccard(kw_a, kw_b)
        tools_a == ExtractTools(skills[a])
        tools_b == ExtractTools(skills[b])
        tool_sim == Jaccard(tools_a, tools_b)
        trigs_a == { Lower(t) : t \in Range(ExtractTriggers(desc_a)) }
        trigs_b == { Lower(t) : t \in Range(ExtractTriggers(desc_b)) }
        trig_overlap == trigs_a \cap trigs_b
    IN  [kw_sim |-> kw_sim, tool_sim |-> tool_sim, trig_overlap |-> trig_overlap,
         composite |-> Composite(kw_sim, tool_sim, trig_overlap),
         shared |-> kw_a \cap kw_b]

\* The record appended for a reported pair; the rounded scores are held in
\* thousandths
OverlapRecord(a, b, sc) ==
    [pair |-> << a, b >>,
     composite |-> Round3(sc.composite),
     keyword_sim |-> Round3(sc.kw_sim),
     tool_sim |-> Round3(sc.tool_sim),
     trigger_overlap |-> SortedWords(sc.trig_overlap),
     shared_keywords |-> Take(SortedWords(sc.shared), KeywordPreview)]

\* CountExtractions had the feature sets been cached per skill
CountExtractionsCached(calls, a, b) ==
    [n \in DOMAIN calls |->
        IF n = a \/ n = b
        THEN [keywords |-> 1, tools |-> 1, triggers |-> 1]
        ELSE calls[n]]

\* One call each of extract_keywords, extract_tools and extract_triggers for
\* a and for b
CountExtractions(calls, a, b) ==
    [n \in DOMAIN calls |->
        IF n = a \/ n = b
        THEN [keywords |-> calls[n].keywords + 1, tools |-> calls[n].tools + 1,
              triggers |-> calls[n].triggers + 1]
        ELSE calls[n]]

\* InsertDescending with equal composites reversed, as a sort ascending
\* followed by a reversal leaves them
RECURSIVE InsertDescendingUnstable(_, _)
InsertDescendingUnstable(sorted, o) ==
    IF sorted = <<>> THEN << o >>
    ELSE IF Head(sorted).composite > o.composite
         THEN << Head(sorted) >> \o InsertDescendingUnstable(Tail(sorted), o)
         ELSE << o >> \o sorted

\* list.sort(key=composite, reverse=True) is stable: a record goes after
\* every record whose composite is at least its own
RECURSIVE InsertDescending(_, _)
InsertDescending(sorted, o) ==
    IF sorted = <<>> THEN << o >>
    ELSE IF Head(sorted).composite >= o.composite
         THEN << Head(sorted) >> \o InsertDescending(Tail(sorted), o)
         ELSE << o >> \o sorted

RECURSIVE SortFrom(_, _, _)
SortFrom(s, i, acc) ==
    IF i > Len(s) THEN acc ELSE SortFrom(s, i + 1, InsertDescending(acc, s[i]))

SortDescending(s) == SortFrom(s, 1, <<>>)


(***************************************************************************)
(* find_clusters: the union-find helpers                                   *)
(***************************************************************************)
MapSet(m, key, v) == [n \in DOMAIN m \cup {key} |-> IF n = key THEN v ELSE m[n]]

\* parent.get(x, x)
ParentGet(parent, x) == IF x \in DOMAIN parent THEN parent[x] ELSE x

\* The negation of find's loop condition
AtRoot(parent, x) == ParentGet(parent, x) = x

\* FindIter with the subscripts of the halving write exchanged:
\* parent[parent[x]] = x
FindIterExchanged(parent, x) ==
    LET halved == MapSet(parent, parent[x], x)
    IN  [parent |-> halved, x |-> parent[x]]

\* One pass of find's loop body: path halving, then the step up
FindIter(parent, x) ==
    LET halved == MapSet(parent, x, ParentGet(parent, parent[x]))
    IN  [parent |-> halved, x |-> halved[x]]

RECURSIVE Find(_, _)
Find(parent, x) ==
    IF AtRoot(parent, x) THEN [parent |-> parent, root |-> x]
    ELSE LET it == FindIter(parent, x) IN Find(it.parent, it.x)

\* union's last two lines, once both finds have returned
Link(parent, px, py) == IF px # py THEN MapSet(parent, px, py) ELSE parent

Union(parent, a, b) ==
    LET fa == Find(parent, a)
        fb == Find(fa.parent, b)
    IN  Link(fb.parent, fa.root, fb.root)

\* Qualifies with the comparison turned round
QualifiesInverted(o, t) == o.composite <= t

Qualifies(o, t) == o.composite >= t

RECURSIVE UnionAll(_, _, _, _)
UnionAll(overlaps, t, i, parent) ==
    IF i > Len(overlaps) THEN parent
    ELSE UnionAll(overlaps, t, i + 1,
                  IF Qualifies(overlaps[i], t)
                  THEN Union(parent, overlaps[i].pair[1], overlaps[i].pair[2])
                  ELSE parent)

AllSkills(overlaps) == UNION { Range(overlaps[i].pair) : i \in DOMAIN overlaps }

\* groups[root].add(s): groups is a dict, held as its entries in insertion order
GroupAdd(groups, root, s) ==
    IF \E i \in DOMAIN groups : groups[i].root = root
    THEN [i \in DOMAIN groups |->
            IF groups[i].root = root
            THEN [root |-> root, members |-> groups[i].members \cup {s}]
            ELSE groups[i]]
    ELSE Append(groups, [root |-> root, members |-> {s}])

\* LargeGroups with the singletons kept
LargeGroupsWithSingletons(groups) ==
    LET kept == SelectSeq(groups, LAMBDA g : Cardinality(g.members) >= 1)
    IN  [i \in DOMAIN kept |-> kept[i].members]

\* [c for c in groups.values() if len(c) > 1]
LargeGroups(groups) ==
    LET kept == SelectSeq(groups, LAMBDA g : Cardinality(g.members) > 1)
    IN  [i \in DOMAIN kept |-> kept[i].members]

\* The grouping loop run over all_skills in the order given
RECURSIVE GroupAll(_, _, _, _)
GroupAll(order, i, parent, groups) ==
    IF i > Len(order) THEN groups
    ELSE LET f == Find(parent, order[i])
         IN  GroupAll(order, i + 1, f.parent, GroupAdd(groups, f.root, order[i]))

\* find_clusters as a function of its arguments and of the order in which
\* the set all_skills is iterated
FindClusters(overlaps, t, order) ==
    LargeGroups(GroupAll(order, 1, UnionAll(overlaps, t, 1, << >>), << >>))

(***************************************************************************)
(* Output                                                                  *)
(***************************************************************************)
\* JsonDocument with the clusters list left empty
JsonDocumentWithoutClusters(skills, overlaps, clusters) ==
    [total_skills |-> Cardinality(DOMAIN skills),
     overlaps |-> overlaps,
     clusters |-> << >>]

JsonDocument(skills, overlaps, clusters) ==
    [total_skills |-> Cardinality(DOMAIN skills),
     overlaps |-> overlaps,
     clusters |-> [i \in DOMAIN clusters |-> SortedNames(clusters[i])]]

ClusterKeywordPreview == 8
TableRows == 30

\* The lines of one cluster section: one entry per overlap record inside it
ClusterLines(overlaps, cluster) ==
    LET inside == SelectSeq(overlaps,
                            LAMBDA o : o.pair[1] \in cluster /\ o.pair[2] \in cluster)
    IN  [i \in DOMAIN inside |->
            [pair |-> inside[i].pair,
             composite |-> inside[i].composite,
             keyword_sim |-> inside[i].keyword_sim,
             tool_sim |-> inside[i].tool_sim,
             triggers |-> inside[i].trigger_overlap,
             keywords |-> Take(inside[i].shared_keywords, ClusterKeywordPreview)]]

\* The pool's tools strings are shorter than the 50 characters the inventory
\* shows, so the slice is the whole string
GenerateReport(skills, overlaps, clusters) ==
    LET top   == Take(overlaps, TableRows)
        names == SortedNames(DOMAIN skills)
    IN  [total_skills |-> Cardinality(DOMAIN skills),
         overlap_pairs |-> Len(overlaps),
         n_clusters |-> Len(clusters),
         clusters |-> [i \in DOMAIN clusters |->
                          [members |-> SortedNames(clusters[i]),
                           lines |-> ClusterLines(overlaps, clusters[i])]],
         table |-> [i \in DOMAIN top |->
                       [pair |-> top[i].pair,
                        composite |-> top[i].composite,
                        keyword_sim |-> top[i].keyword_sim,
                        tool_sim |-> top[i].tool_sim,
                        n_triggers |-> Len(top[i].trigger_overlap)]],
         inventory |-> [i \in DOMAIN names |->
                           [name |-> names[i],
                            version |-> Get(skills[names[i]], "version", "-"),
                            body |-> Get(skills[names[i]], "_body_lines", "?"),
                            tools |-> Get(skills[names[i]], "tools", << "-" >>)]]]

(***************************************************************************)
(* The program as a state machine                                          *)
(***************************************************************************)
VARIABLES
    skills,     \* main: the mapping from skill name to frontmatter
    pc,         \* the position in main, compute_overlap or find_clusters
    todo,       \* compute_overlap: the pairs yet to be scored
    results,    \* compute_overlap: results; then main's overlaps
    last,       \* compute_overlap: the loop body's float locals, if any
    calls,      \* how often each extract_* function ran for each skill
    threshold,  \* args.threshold, in thousandths
    parent,     \* find_clusters: parent
    k,          \* find_clusters: the index of the record in the first loop
    x,          \* find: x
    px,         \* union: px
    cur,        \* find_clusters: s in the grouping loop
    pending,    \* find_clusters: the members of all_skills not yet iterated
    groups,     \* find_clusters: groups
    clusters,   \* main: clusters
    out,        \* what main printed, if anything
    prev        \* what the previous run over the same corpus printed, if any

vars == << skills, pc, todo, results, last, calls, threshold, parent, k, x, px,
           cur, pending, groups, clusters, out, prev >>

EmptyMap == << >>
NoName == << >>
DefaultThreshold == 250
Thresholds == { 150, DefaultThreshold }

ufVars == << parent, k, x, px, cur, pending, groups >>
overlapVars == << todo, results, last, calls >>

Init ==
    /\ skills = EmptyMap
    /\ pc = "scan"
    /\ todo = << >>
    /\ results = << >>
    /\ last = << >>
    /\ calls = EmptyMap
    /\ threshold = DefaultThreshold
    /\ parent = EmptyMap
    /\ k = 0
    /\ x = NoName
    /\ px = NoName
    /\ cur = NoName
    /\ pending = {}
    /\ groups = << >>
    /\ clusters = << >>
    /\ out = << >>
    /\ prev = << >>

\* main's scan loop: one directory whose frontmatter parses; a name met
\* again replaces the earlier entry
Scan ==
    /\ pc = "scan"
    /\ \E name \in NamePool, fm \in SkillPool : skills' = MapSet(skills, name, fm)
    /\ UNCHANGED << pc, overlapVars, threshold, ufVars, clusters, out, prev >>

NoCalls == [keywords |-> 0, tools |-> 0, triggers |-> 0]

\* compute_overlap, up to the loop
CallComputeOverlap ==
    /\ pc = "scan"
    /\ pc' = "pairs"
    /\ todo' = Combinations(SortedNames(DOMAIN skills))
    /\ results' = << >>
    /\ calls' = [n \in DOMAIN skills |-> NoCalls]
    /\ UNCHANGED << skills, last, threshold, ufVars, clusters, out, prev >>

\* One pass of compute_overlap's loop
PairStep ==
    /\ pc = "pairs"
    /\ todo # << >>
    /\ LET a  == Head(todo)[1]
           b  == Head(todo)[2]
           sc == Score(skills, a, b)
       IN  /\ results' = IF Reported(sc.composite)
                         THEN Append(results, OverlapRecord(a, b, sc))
                         ELSE results
           /\ last' = << [a |-> a, b |-> b, kw_sim |-> sc.kw_sim,
                          tool_sim |-> sc.tool_sim, composite |-> sc.composite] >>
           /\ calls' = CountExtractions(calls, a, b)
    /\ todo' = Tail(todo)
    /\ UNCHANGED << skills, pc, threshold, ufVars, clusters, out, prev >>

\* The sort and the return to main
SortResults ==
    /\ pc = "pairs"
    /\ todo = << >>
    /\ results' = SortDescending(results)
    /\ last' = << >>
    /\ pc' = "clusters"
    /\ UNCHANGED << skills, todo, calls, threshold, ufVars, clusters, out, prev >>

\* find_clusters is called with args.threshold; a run that repeats an
\* earlier one is given the same arguments
CallFindClusters ==
    /\ pc = "clusters"
    /\ \E t \in Thresholds :
          /\ prev # << >> => t = threshold
          /\ threshold' = t
    /\ parent' = EmptyMap
    /\ k' = 1
    /\ pc' = "union"
    /\ UNCHANGED << skills, overlapVars, x, px, cur, pending, groups, clusters, out, prev >>

\* The first loop: a record below the threshold
SkipRecord ==
    /\ pc = "union"
    /\ k <= Len(results)
    /\ ~Qualifies(results[k], threshold)
    /\ k' = k + 1
    /\ UNCHANGED << skills, pc, overlapVars, threshold, parent, x, px, cur, pending,
                    groups, clusters, out, prev >>

\* The first loop: union is called and calls find(x)
CallUnion ==
    /\ pc = "union"
    /\ k <= Len(results)
    /\ Qualifies(results[k], threshold)
    /\ x' = results[k].pair[1]
    /\ pc' = "find_x"
    /\ UNCHANGED << skills, overlapVars, threshold, parent, k, px, cur, pending,
                    groups, clusters, out, prev >>

FindPcs == { "find_x", "find_y", "find_s" }

\* One pass of find's loop, in any of its three callers
FindStep ==
    /\ pc \in FindPcs
    /\ ~AtRoot(parent, x)
    /\ LET it == FindIter(parent, x)
       IN  /\ parent' = it.parent
           /\ x' = it.x
    /\ UNCHANGED << skills, pc, overlapVars, threshold, k, px, cur, pending, groups,
                    clusters, out, prev >>

\* find(x) returns into union, which calls find(y)
ReturnFindX ==
    /\ pc = "find_x"
    /\ AtRoot(parent, x)
    /\ px' = x
    /\ x' = results[k].pair[2]
    /\ pc' = "find_y"
    /\ UNCHANGED << skills, overlapVars, threshold, parent, k, cur, pending, groups,
                    clusters, out, prev >>

\* find(y) returns into union, which links the roots and returns
ReturnFindY ==
    /\ pc = "find_y"
    /\ AtRoot(parent, x)
    /\ parent' = Link(parent, px, x)
    /\ x' = NoName
    /\ px' = NoName
    /\ k' = k + 1
    /\ pc' = "union"
    /\ UNCHANGED << skills, overlapVars, threshold, cur, pending, groups, clusters,
                    out, prev >>

\* The first loop ends; all_skills is built
BuildAllSkills ==
    /\ pc = "union"
    /\ k > Len(results)
    /\ pending' = AllSkills(results)
    /\ groups' = << >>
    /\ k' = 0
    /\ pc' = "group"
    /\ UNCHANGED << skills, overlapVars, threshold, parent, x, px, cur, clusters,
                    out, prev >>

\* The grouping loop takes the next member of the set all_skills: a set of
\* str is iterated in an order that str hashing fixes anew in every process
NextSkill ==
    /\ pc = "group"
    /\ \E s \in pending :
          /\ cur' = s
          /\ x' = s
          /\ pending' = pending \ {s}
    /\ pc' = "find_s"
    /\ UNCHANGED << skills, overlapVars, threshold, parent, k, px, groups, clusters,
                    out, prev >>

\* find(s) returns into the grouping loop
ReturnFindS ==
    /\ pc = "find_s"
    /\ AtRoot(parent, x)
    /\ groups' = GroupAdd(groups, x, cur)
    /\ x' = NoName
    /\ cur' = NoName
    /\ pc' = "group"
    /\ UNCHANGED << skills, overlapVars, threshold, parent, k, px, pending, clusters,
                    out, prev >>

\* find_clusters returns to main
ReturnClusters ==
    /\ pc = "group"
    /\ pending = {}
    /\ clusters' = LargeGroups(groups)
    /\ parent' = EmptyMap
    /\ groups' = << >>
    /\ pc' = "print"
    /\ UNCHANGED << skills, overlapVars, threshold, k, x, px, cur, pending, out, prev >>

\* main with --json; a run that repeats an earlier one is given --json again
PrintJson ==
    /\ pc = "print"
    /\ out' = << [json |-> TRUE, doc |-> JsonDocument(skills, results, clusters)] >>
    /\ pc' = "done"
    /\ UNCHANGED << skills, overlapVars, threshold, ufVars, clusters, prev >>

\* main without --json
PrintReport ==
    /\ pc = "print"
    /\ prev = << >>
    /\ out' = << [json |-> FALSE, doc |-> GenerateReport(skills, results, clusters)] >>
    /\ pc' = "done"
    /\ UNCHANGED << skills, overlapVars, threshold, ufVars, clusters, prev >>

\* The program is run once more on the unchanged corpus, with the same
\* arguments: main rebuilds the same mapping and calls compute_overlap
Rerun ==
    /\ pc = "done"
    /\ prev = << >>
    /\ out[1].json
    /\ prev' = out
    /\ out' = << >>
    /\ clusters' = << >>
    /\ pc' = "pairs"
    /\ todo' = Combinations(SortedNames(DOMAIN skills))
    /\ results' = << >>
    /\ calls' = [n \in DOMAIN skills |-> NoCalls]
    /\ UNCHANGED << skills, last, threshold, ufVars >>

ClusterNext ==
    \/ CallFindClusters
    \/ SkipRecord
    \/ CallUnion
    \/ FindStep
    \/ ReturnFindX
    \/ ReturnFindY
    \/ BuildAllSkills
    \/ NextSkill
    \/ ReturnFindS
    \/ ReturnClusters

Next ==
    \/ Scan
    \/ CallComputeOverlap
    \/ PairStep
    \/ SortResults
    \/ ClusterNext
    \/ PrintJson
    \/ PrintReport

Spec == Init /\ [][Next]_vars

\* Two runs of the program over one corpus
RerunNext == Next \/ Rerun

SpecRerun == Init /\ [][RerunNext]_vars


(***************************************************************************)
(* find_clusters on its own: every list compute_overlap can hand over has  *)
(* its pairs in name order, no pair twice, and is sorted by composite,     *)
(* descending, equal composites in pair order.                             *)
(***************************************************************************)
MaxRecords == 4
CompositePool == { 200, DefaultThreshold }

AllPairs == Combinations(SortedNames(NamePool))

OverlapLists ==
    { SortDescending(SelectSeq([i \in DOMAIN AllPairs |->
                                   [pair |-> AllPairs[i], composite |-> f[i]]],
                               LAMBDA o : o.composite # 0))
      : f \in { g \in [DOMAIN AllPairs -> CompositePool \cup {0}] :
                  Cardinality({ i \in DOMAIN AllPairs : g[i] # 0 }) <= MaxRecords } }

InitClusters ==
    /\ skills = EmptyMap
    /\ pc = "clusters"
    /\ todo = << >>
    /\ results \in OverlapLists
    /\ last = << >>
    /\ calls = EmptyMap
    /\ threshold = DefaultThreshold
    /\ parent = EmptyMap
    /\ k = 0
    /\ x = NoName
    /\ px = NoName
    /\ cur = NoName
    /\ pending = {}
    /\ groups = << >>
    /\ clusters = << >>
    /\ out = << >>
    /\ prev = << >>

SpecClusters == InitClusters /\ [][ClusterNext]_vars


(***************************************************************************)
(* Reference notions the properties are stated with                        *)
(***************************************************************************)
\* The names joined to S by a chain of edges of E (a set of two-name sets)
RECURSIVE Closure(_, _)
Closure(S, E) ==
    LET T == S \cup UNION { e \in E : e \cap S # {} }
    IN  IF T = S THEN S ELSE Closure(T, E)

Component(n, E) == Closure({n}, E)

\* The pairs of the overlap list whose composite is at least the cluster threshold
QualifyingEdges ==
    { Range(results[i].pair) : i \in { j \in DOMAIN results : results[j].composite >= threshold } }

\* 0.5 * |Ka & Kb| / |Ka | Kb| + 0.2 * |Ta & Tb| / |Ta | Tb| + (0.3 if the
\* trigger sets meet) > 0.15 in exact arithmetic, a Jaccard index of two
\* empty sets being 0: both sides are multiplied by 20 * |Ka | Kb| * |Ta | Tb|
ExactlyAbove(a, b) ==
    LET da == Get(skills[a], "description", NoDescription)
        db == Get(skills[b], "description", NoDescription)
        ki == Cardinality(ExtractKeywords(da) \cap ExtractKeywords(db))
        ku == Cardinality(ExtractKeywords(da) \cup ExtractKeywords(db))
        ti == Cardinality(ExtractTools(skills[a]) \cap ExtractTools(skills[b]))
        tu == Cardinality(ExtractTools(skills[a]) \cup ExtractTools(skills[b]))
        g  == IF { Lower(t) : t \in Range(da.quotes) } \cap { Lower(t) : t \in Range(db.quotes) } # {}
              THEN 1 ELSE 0
        kd == IF ku = 0 THEN 1 ELSE ku
        td == IF tu = 0 THEN 1 ELSE tu
    IN  10 * ki * td + 4 * ti * kd + 6 * g * kd * td > 3 * kd * td

AfterOverlap == pc \notin { "scan", "pairs" }

\* C1: once compute_overlap has returned, a pair of distinct skills has a
\* record exactly when its composite score, as the formula defines it, is
\* strictly above 0.15, and no pair has two records.
C1_ReportedIffAbove ==
    AfterOverlap =>
        /\ \A a \in DOMAIN skills, b \in DOMAIN skills :
              LexLess(a, b) =>
                 ((\E i \in DOMAIN results : results[i].pair = << a, b >>)
                     <=> ExactlyAbove(a, b))
        /\ \A i \in DOMAIN results, j \in DOMAIN results :
              i # j => Range(results[i].pair) # Range(results[j].pair)

\* C2: the clusters find_clusters returns are exactly the connected
\* components with at least two members of the graph whose edges are the
\* pairs with composite >= the threshold, each listed once.
C2_ClustersAreComponents ==
    pc = "print" =>
        /\ Range(clusters) =
              { c \in { Component(n, QualifyingEdges) : n \in AllSkills(results) } :
                  Cardinality(c) >= 2 }
        /\ Cardinality(Range(clusters)) = Len(clusters)

C2_Witness ==
    /\ pc = "print"
    /\ \E i \in DOMAIN clusters : Cardinality(clusters[i]) >= 3
    /\ \E j \in DOMAIN results : results[j].composite < threshold

\* The pairs whose composite score is strictly above 0.15
AboveEdges ==
    UNION { { {a, b} : b \in { c \in DOMAIN skills : c # a /\ ExactlyAbove(a, c) } }
            : a \in DOMAIN skills }

\* C3: a pair whose composite is not above 0.15 gives clustering no node and
\* no edge: every member of a cluster is in a pair above 0.15 with another
\* member, and is joined to every other member by pairs that are above 0.15
\* and at least the cluster threshold.
C3_OnlyPairsAboveCluster ==
    pc \in { "print", "done" } =>
        \A c \in Range(clusters) : \A n \in c :
            /\ \E m \in c \ {n} : {n, m} \in AboveEdges
            /\ c \subseteq Component(n, AboveEdges \cap QualifyingEdges)

\* Every cut a threshold can make in the composites of the bounded lists
Cuts == Thresholds \cup CompositePool \cup { c + 1 : c \in CompositePool }

ClustersAt(t) == Range(FindClusters(results, t, SortedNames(AllSkills(results))))

\* C4: for one overlap list and thresholds t1 <= t2, every cluster at t2 is
\* inside a cluster at t1.  The clusters of the run are compared with the
\* clusters of every lower and of every higher threshold.
C4_RaisingThresholdShrinks ==
    pc = "print" =>
        \A t \in Cuts :
            /\ t <= threshold => \A c \in Range(clusters) : \E d \in ClustersAt(t) : c \subseteq d
            /\ t >= threshold => \A d \in ClustersAt(t) : \E c \in Range(clusters) : d \subseteq c

C4_Witness ==
    /\ pc = "print"
    /\ \E t \in Cuts :
          /\ t < threshold
          /\ \E c \in Range(clusters) : \E d \in ClustersAt(t) : c \subseteq d /\ c # d
          /\ Cardinality(ClustersAt(t)) < Len(clusters)

PairLess(p, q) == LexLess(p[1], q[1]) \/ (p[1] = q[1] /\ LexLess(p[2], q[2]))

\* C5: the list compute_overlap returns is in descending order of composite,
\* records of equal composite are in the order of their pairs, and each
\* pair has its names in order.
C5_SortedWithPairTieBreak ==
    AfterOverlap =>
        /\ \A i \in DOMAIN results, j \in DOMAIN results :
              i < j =>
                 \/ results[i].composite > results[j].composite
                 \/ /\ results[i].composite = results[j].composite
                    /\ PairLess(results[i].pair, results[j].pair)
        /\ \A i \in DOMAIN results : LexLess(results[i].pair[1], results[i].pair[2])

C5_Witness ==
    /\ AfterOverlap
    /\ \E i \in DOMAIN results, j \in DOMAIN results :
          i < j /\ results[i].composite = results[j].composite
    /\ \E i \in DOMAIN results, j \in DOMAIN results :
          results[i].composite > results[j].composite

\* C6: a second run over the same corpus with the same arguments prints the
\* same JSON document as the first, the order of the clusters included.
C6_RerunPrintsTheSame ==
    (pc = "done" /\ prev # << >>) => out = prev

FOne == FDiv(1, 1)
InUnitInterval(f) == FCmp(f, FZero) >= 0 /\ FCmp(f, FOne) <= 0
Thousandths == 0..1000

\* C7: the two similarities and the composite of every pair lie in [0, 1],
\* before and after rounding, and the Jaccard index of two empty sets is 0.
C7_ScoresInUnitInterval ==
    /\ last # << >> =>
          LET l  == last[1]
              da == Get(skills[l.a], "description", NoDescription)
              db == Get(skills[l.b], "description", NoDescription)
          IN  /\ InUnitInterval(l.kw_sim)
              /\ InUnitInterval(l.tool_sim)
              /\ InUnitInterval(l.composite)
              /\ (ExtractKeywords(da) = {} /\ ExtractKeywords(db) = {}) => l.kw_sim = FZero
              /\ (ExtractTools(skills[l.a]) = {} /\ ExtractTools(skills[l.b]) = {})
                    => l.tool_sim = FZero
    /\ \A i \in DOMAIN results :
          /\ results[i].composite \in Thousandths
          /\ results[i].keyword_sim \in Thousandths
          /\ results[i].tool_sim \in Thousandths

C7_Witness ==
    /\ last # << >>
    /\ FCmp(last[1].composite, FOne) = 0
    /\ \E i \in DOMAIN results : results[i].composite = 1000

\* What a document says about clusters and pairs
Field(doc, name) == IF name \in DOMAIN doc THEN doc[name] ELSE << >>

JsonSays(doc) ==
    LET os == Range(Field(doc, "overlaps"))
    IN  [members  |-> { Range(c) : c \in Range(Field(doc, "clusters")) },
         scores   |-> { << o.pair, o.composite, o.keyword_sim, o.tool_sim >> : o \in os },
         triggers |-> UNION { { << o.pair, t >> : t \in Range(o.trigger_overlap) } : o \in os },
         trigger_counts |-> { << o.pair, Len(o.trigger_overlap) >> : o \in os },
         keywords |-> UNION { { << o.pair, w >> : w \in Range(o.shared_keywords) } : o \in os },
         inventory |-> { << r.name, r.version, r.body, r.tools >> :
                           r \in Range(Field(doc, "inventory")) }]

ReportSays(doc) ==
    LET ls == UNION { Range(c.lines) : c \in Range(doc.clusters) }
        rows == Range(doc.table)
    IN  [members  |-> { Range(c.members) : c \in Range(doc.clusters) },
         scores   |-> { << o.pair, o.composite, o.keyword_sim, o.tool_sim >> : o \in ls \cup rows },
         triggers |-> UNION { { << o.pair, t >> : t \in Range(o.triggers) } : o \in ls },
         trigger_counts |-> { << o.pair, o.n_triggers >> : o \in rows },
         keywords |-> UNION { { << o.pair, w >> : w \in Range(o.keywords) } : o \in ls },
         inventory |-> { << r.name, r.version, r.body, r.tools >> : r \in Range(doc.inventory) }]

\* The two documents main can print for the corpus of the run
ReportOfRun == IF out[1].json THEN GenerateReport(skills, results, clusters) ELSE out[1].doc
JsonOfRun == IF out[1].json THEN out[1].doc ELSE JsonDocument(skills, results, clusters)

OverlapInformationInJson ==
    LET r == ReportSays(ReportOfRun)
        j == JsonSays(JsonOfRun)
    IN  /\ r.members \subseteq j.members
        /\ r.scores \subseteq j.scores
        /\ r.triggers \subseteq j.triggers
        /\ r.trigger_counts \subseteq j.trigger_counts
        /\ r.keywords \subseteq j.keywords
        /\ ReportOfRun.total_skills = JsonOfRun.total_skills
        /\ ReportOfRun.overlap_pairs = Len(Field(JsonOfRun, "overlaps"))
        /\ ReportOfRun.n_clusters = Len(Field(JsonOfRun, "clusters"))

\* C8, as stated: everything the report surfaces, the per-skill inventory
\* of version, body line count and tools included, is in the JSON document.
C8_JsonHoldsAllOfReport ==
    pc = "done" =>
        /\ OverlapInformationInJson
        /\ ReportSays(ReportOfRun).inventory \subseteq JsonSays(JsonOfRun).inventory

\* C8, amended: what the report says about clusters and pairs (members,
\* scores, shared triggers and keywords, the three counts) is in the JSON
\* document; the inventory is in the report alone.
C8_JsonHoldsOverlapInformation ==
    pc = "done" =>
        /\ OverlapInformationInJson
        /\ DOMAIN skills # {} =>
              ReportSays(ReportOfRun).inventory \cap JsonSays(JsonOfRun).inventory = {}

C8_Witness ==
    /\ pc = "done"
    /\ ~out[1].json
    /\ ReportSays(out[1].doc).triggers # {}
    /\ ReportSays(out[1].doc).keywords # {}
    /\ Len(out[1].doc.clusters) = 2

\* How many of the pairs compute_overlap's loop has been through hold n
TimesPaired(n) ==
    LET all == Combinations(SortedNames(DOMAIN skills))
    IN  Cardinality({ i \in 1..(Len(all) - Len(todo)) : n \in Range(all[i]) })

RECURSIVE Walk(_, _, _)
Walk(p, n, fuel) ==
    IF fuel = 0 \/ AtRoot(p, n) THEN n ELSE Walk(p, p[n], fuel - 1)

RootOf(p, n) == Walk(p, n, Cardinality(DOMAIN p))

Forest(p) == \A n \in NamePool : AtRoot(p, RootOf(p, n))

RECURSIVE StepsToRoot(_, _, _)
StepsToRoot(p, n, fuel) ==
    IF fuel = 0 \/ AtRoot(p, n) THEN 0 ELSE 1 + StepsToRoot(p, p[n], fuel - 1)

Height(p, n) == StepsToRoot(p, n, Cardinality(DOMAIN p))

\* C10: parent is a forest after every step; a pass of find's loop keeps
\* the root of every name and brings x nearer to its root, so find ends.
C10_ForestAndHalvingKeepsRoots ==
    [][ /\ Forest(parent')
        /\ (pc \in FindPcs /\ pc' = pc) =>
              /\ \A n \in NamePool : RootOf(parent', n) = RootOf(parent, n)
              /\ Height(parent', x') < Height(parent, x) ]_vars

C10_Witness ==
    /\ pc \in FindPcs
    /\ ~AtRoot(parent, x)
    /\ ~AtRoot(parent, parent[x])
    /\ ~AtRoot(parent, parent[parent[x]])

====
